---- MODULE Spec2Model ----
(***************************************************************************)
(* Liquidity engine: swing detection (3-bar fractal), EQH/EQL clustering,  *)
(* nearest-opposite-cluster target selection, signal construction with the *)
(* Signal contract's validators, and the scan_signals orchestration.       *)
(*                                                                         *)
(* Bar prices and buffers are integers (price units); every derived        *)
(* quantity (cluster level, entry-zone bounds, risk, reward, rr) is a      *)
(* Python float, that is an IEEE-754 double, computed with the rounding    *)
(* of the double operations. Text (symbol, timeframe) is a sequence of     *)
(* ASCII code points.                                                      *)
(***************************************************************************)
EXTENDS Integers, Sequences, FiniteSets

VARIABLES
    entry,          \* the API function that was called
    pc,             \* position inside the call
    symbol,         \* scan_signals argument
    timeframe,      \* scan_signals argument
    highs,          \* bar highs
    lows,           \* bar lows
    cfg,            \* EngineConfig
    swings,         \* result of detect_swings / argument of cluster_equal_levels
    side,           \* side argument of the running cluster_equal_levels call
    pts,            \* cluster_equal_levels: the points of the requested side
    clusters,       \* cluster_equal_levels: in-progress clusters, creation order
    pi,             \* cluster_equal_levels: position of the next point of pts
    eqh_clusters,   \* detect_eqh_eql result, HIGH side
    eql_clusters,   \* detect_eqh_eql result, LOW side
    k,              \* scan_signals: position in the cluster list being built from
    signals,        \* scan_signals: signals collected so far
    last,           \* the last builder call: direction, cluster, outcome
    arg_level,      \* nearest_liquidity_*: level argument
    arg_clusters,   \* nearest_liquidity_*: clusters argument
    ret,            \* returned value of the call
    err             \* "none", or the error the call raised

vars == << entry, pc, symbol, timeframe, highs, lows, cfg, swings, side, pts,
           clusters, pi, eqh_clusters, eql_clusters, k, signals, last,
           arg_level, arg_clusters, ret, err >>

-----------------------------------------------------------------------------
(* Bounds of the model                                                      *)

\* SpecSwings: longest highs / lows sequence, bar prices 1..MaxBarPrice
MaxLen == 5
MaxBarPrice == 2
\* SpecCluster: swing prices are 1..MaxPrice
MaxPrice == 3
\* SpecCluster: swing indices are 1..MaxIdx
MaxIdx == 4
\* Spec (scan_signals): longest bar series
MaxBars == 9
\* SpecNearest: at most MaxClusters clusters, levels 1..MaxLevel
MaxClusters == 3
MaxLevel == 3

Abs(x) == IF x < 0 THEN -x ELSE x

-----------------------------------------------------------------------------
(* Natural numbers of any size: little-endian limbs in base 2^15, no high   *)
(* zero limb; << >> is zero.                                                *)

Limb == 2^15

RECURSIVE BTrim(_)
BTrim(a) == IF a = << >> THEN a
            ELSE IF a[Len(a)] = 0 THEN BTrim(SubSeq(a, 1, Len(a) - 1)) ELSE a

RECURSIVE BFromInt(_)
BFromInt(x) == IF x = 0 THEN << >> ELSE << x % Limb >> \o BFromInt(x \div Limb)

RECURSIVE BCmpFrom(_, _, _)
BCmpFrom(a, b, i) ==
    IF i = 0 THEN 0
    ELSE IF a[i] > b[i] THEN 1
    ELSE IF a[i] < b[i] THEN -1
    ELSE BCmpFrom(a, b, i - 1)

\* -1, 0, 1 as a < b, a = b, a > b
BCmp(a, b) ==
    IF Len(a) > Len(b) THEN 1
    ELSE IF Len(a) < Len(b) THEN -1
    ELSE BCmpFrom(a, b, Len(a))

RECURSIVE BAddFrom(_, _, _, _)
BAddFrom(a, b, i, carry) ==
    IF i > Len(a) /\ i > Len(b)
    THEN IF carry = 0 THEN << >> ELSE << carry >>
    ELSE LET x == IF i <= Len(a) THEN a[i] ELSE 0
             y == IF i <= Len(b) THEN b[i] ELSE 0
             t == x + y + carry
         IN  << t % Limb >> \o BAddFrom(a, b, i + 1, t \div Limb)

BAdd(a, b) == BAddFrom(a, b, 1, 0)

RECURSIVE BSubFrom(_, _, _, _)
BSubFrom(a, b, i, borrow) ==
    IF i > Len(a) THEN << >>
    ELSE LET y == IF i <= Len(b) THEN b[i] ELSE 0
             t == a[i] - y - borrow
         IN  IF t < 0 THEN << t + Limb >> \o BSubFrom(a, b, i + 1, 1)
                      ELSE << t >> \o BSubFrom(a, b, i + 1, 0)

\* a - b for a >= b
BSub(a, b) == BTrim(BSubFrom(a, b, 1, 0))

RECURSIVE BMulFrom(_, _, _, _)
BMulFrom(a, c, i, carry) ==
    IF i > Len(a)
    THEN IF carry = 0 THEN << >> ELSE << carry >>
    ELSE LET t == a[i] * c + carry
         IN  << t % Limb >> \o BMulFrom(a, c, i + 1, t \div Limb)

\* a * c for 0 < c < 2^15
BMulSmall(a, c) == BMulFrom(a, c, 1, 0)

RECURSIVE Zeros(_)
Zeros(n) == IF n = 0 THEN << >> ELSE << 0 >> \o Zeros(n - 1)

\* a * 2^n
BShl(a, n) ==
    IF a = << >> THEN a ELSE Zeros(n \div 15) \o BMulSmall(a, 2^(n % 15))

\* the limbs i.. of a, shifted down by the bits that lo = 2^b and hi = 2^(15-b) stand for
RECURSIVE BShrFrom(_, _, _, _)
BShrFrom(a, i, lo, hi) ==
    IF i > Len(a) THEN << >>
    ELSE << (a[i] \div lo) + (IF i < Len(a) THEN (a[i + 1] % lo) * hi ELSE 0) >>
         \o BShrFrom(a, i + 1, lo, hi)

\* floor(a / 2^n)
BShr(a, n) == BTrim(BShrFrom(a, (n \div 15) + 1, 2^(n % 15), 2^(15 - (n % 15))))

RECURSIVE IntBitLen(_)
IntBitLen(x) == IF x = 0 THEN 0 ELSE 1 + IntBitLen(x \div 2)

BBitLen(a) == IF a = << >> THEN 0 ELSE 15 * (Len(a) - 1) + IntBitLen(a[Len(a)])

BIsOdd(a) == a # << >> /\ a[1] % 2 = 1

RECURSIVE IntTz(_)
IntTz(x) == IF x % 2 = 1 THEN 0 ELSE 1 + IntTz(x \div 2)

RECURSIVE BTzFrom(_, _)
BTzFrom(a, i) == IF a[i] = 0 THEN 15 + BTzFrom(a, i + 1) ELSE IntTz(a[i])

\* number of trailing zero bits of a > 0
BTz(a) == BTzFrom(a, 1)

-----------------------------------------------------------------------------
(* IEEE-754 binary64 values: s * m * 2^e with s the sign, m an odd natural  *)
(* below 2^53 (or zero) and e the exponent. Every finite double has exactly *)
(* one such form, so equal doubles are equal records. Results are rounded   *)
(* to 53 significant bits, ties to even. Magnitudes stay inside the normal  *)
(* range 2^-1022 .. 2^1024 and the sign of zero is not kept.                *)
(* An intermediate value is an operator argument, so it is computed once.   *)

FZero == [s |-> 1, m |-> << >>, e |-> 0]

Min(x, y) == IF x < y THEN x ELSE y

\* s * N * 2^e without the tz trailing zero bits of N
FNormTz(s, N, e, tz) == [s |-> s, m |-> BShr(N, tz), e |-> e + tz]

FNorm(s, N, e) == IF N = << >> THEN FZero ELSE FNormTz(s, N, e, BTz(N))

\* half: the dropped bits against one half of the last kept bit (-1, 0, 1)
FRoundUp(s, kept, e, sticky, half) ==
    FNorm(s,
          IF half = 1 \/ (half = 0 /\ (sticky \/ BIsOdd(kept)))
          THEN BAdd(kept, << 1 >>) ELSE kept,
          e)

FRoundKept(s, N, e, sticky, n, kept) ==
    FRoundUp(s, kept, e + n, sticky,
             BCmp(BSub(N, BShl(kept, n)), BShl(<< 1 >>, n - 1)))

\* the double nearest to s * N * 2^e (sticky: a nonzero part below N was dropped)
FRound(s, N, e, sticky) ==
    IF BBitLen(N) <= 53 THEN FNorm(s, N, e)
    ELSE FRoundKept(s, N, e, sticky, BBitLen(N) - 53, BShr(N, BBitLen(N) - 53))

\* float(x) for an integer x
F(x) == FNorm(IF x < 0 THEN -1 ELSE 1, BFromInt(Abs(x)), 0)

FNeg(a) == IF a.m = << >> THEN a ELSE [a EXCEPT !.s = -a.s]
FAbs(a) == [a EXCEPT !.s = 1]

\* position of the leading bit of |a|
FTop(a) == BBitLen(a.m) + a.e

\* -1, 0, 1 as |a| < |b|, |a| = |b|, |a| > |b| (a, b nonzero)
FCmpMag(a, b) ==
    IF FTop(a) > FTop(b) THEN 1
    ELSE IF FTop(a) < FTop(b) THEN -1
    ELSE BCmp(BShl(a.m, a.e - Min(a.e, b.e)), BShl(b.m, b.e - Min(a.e, b.e)))

FSign(a) == IF a.m = << >> THEN 0 ELSE a.s

FCmp(a, b) ==
    IF FSign(a) # FSign(b) THEN (IF FSign(a) < FSign(b) THEN -1 ELSE 1)
    ELSE IF FSign(a) = 0 THEN 0
    ELSE a.s * FCmpMag(a, b)

FLt(a, b) == FCmp(a, b) = -1
FLe(a, b) == FCmp(a, b) # 1
FEq(a, b) == FCmp(a, b) = 0

\* sa * Na + sb * Nb for magnitudes that compare as c
FAddSigned(sa, Na, sb, Nb, e, c) ==
    IF sa = sb THEN FRound(sa, BAdd(Na, Nb), e, FALSE)
    ELSE IF c = 0 THEN FZero
    ELSE FRound(IF c = 1 THEN sa ELSE sb,
                IF c = 1 THEN BSub(Na, Nb) ELSE BSub(Nb, Na), e, FALSE)

FAddAligned(sa, Na, sb, Nb, e) == FAddSigned(sa, Na, sb, Nb, e, BCmp(Na, Nb))

\* a + b: the exact sum at the lower exponent, rounded once; an operand more
\* than 64 binary places below the other does not change it
FAdd(a, b) ==
    IF a.m = << >> THEN b
    ELSE IF b.m = << >> THEN a
    ELSE IF FTop(a) - FTop(b) > 64 THEN a
    ELSE IF FTop(b) - FTop(a) > 64 THEN b
    ELSE FAddAligned(a.s, BShl(a.m, a.e - Min(a.e, b.e)),
                     b.s, BShl(b.m, b.e - Min(a.e, b.e)), Min(a.e, b.e))

\* a - b
FSub(a, b) == FAdd(a, FNeg(b))

\* The quotient digit of R by D, from the estimate qhat >= floor(R / D)
\* with P = qhat * D: the estimate is lowered until P <= R.
RECURSIVE FixDigit(_, _, _, _)
FixDigit(qhat, P, R, D) ==
    IF BCmp(P, R) = 1 THEN FixDigit(qhat - 1, BSub(P, D), R, D)
    ELSE [q |-> qhat, r |-> BSub(R, P)]

DivDigitFrom(R1, D, qhat) == FixDigit(qhat, BTrim(BMulSmall(D, qhat)), R1, D)

\* One digit of the long division in base 2^15: the quotient digit and the
\* remainder of R1 by D, for R1 < D * 2^15. The digit is estimated from the
\* two top limbs of R1 and the top limb of D.
DivDigit(R1, D) ==
    DivDigitFrom(R1, D,
        Min(Limb - 1,
            ((IF Len(R1) > Len(D) THEN R1[Len(D) + 1] ELSE 0) * Limb
             + (IF Len(R1) >= Len(D) THEN R1[Len(D)] ELSE 0)) \div D[Len(D)]))

\* Long division of a by D, from the top limb i of a down; R is the
\* remainder so far (R < D) and q the quotient limbs so far.
RECURSIVE LongDiv(_, _, _, _, _)
RECURSIVE LongDivNext(_, _, _, _, _)
LongDivNext(a, D, i, q, dg) ==
    IF dg.q = 0 /\ q = << >>
    THEN LongDiv(a, D, i - 1, dg.r, q)
    ELSE LongDiv(a, D, i - 1, dg.r, << dg.q >> \o q)

LongDiv(a, D, i, R, q) ==
    IF i = 0 THEN [q |-> q, r |-> R]
    ELSE LongDivNext(a, D, i, q, DivDigit(BTrim(<< a[i] >> \o R), D))

FQuotRound(s, e, dv) == FRound(s, dv.q, e, dv.r # << >>)

\* the division starts below the skip top limbs of a, which are less than D
FQuotSkip(s, a, D, e, skip) ==
    FQuotRound(s, e, LongDiv(a, D, Len(a) - skip,
                             SubSeq(a, Len(a) - skip + 1, Len(a)), << >>))

FQuotScaled(s, a, D, e) == FQuotSkip(s, a, D, e, Min(Len(a), Len(D) - 1))

\* the double nearest to s * (N / D) * 2^e, for D > 0: both are scaled so
\* that the top limb of D is full and the quotient has 55 bits or more, and
\* the quotient is rounded once
FQuotUp(s, N, D, e, sh, up) == FQuotScaled(s, BShl(N, sh + up), BShl(D, sh), e - up)

FQuot(s, N, D, e) ==
    IF N = << >> THEN FZero
    ELSE FQuotUp(s, N, D, e, 15 - IntBitLen(D[Len(D)]),
                 IF Len(D) + 5 > Len(N) THEN 15 * (Len(D) + 5 - Len(N)) ELSE 0)

\* a / b for b nonzero
FDiv(a, b) == FQuot(a.s * b.s, a.m, b.m, a.e - b.e)

Round4Half(s, fl, half) ==
    FQuot(s, IF half = 1 \/ (half = 0 /\ BIsOdd(fl)) THEN BAdd(fl, << 1 >>) ELSE fl,
          BFromInt(10000), 0)

\* fl = floor(num / 2^sh)
Round4Floor(s, num, sh, fl) ==
    Round4Half(s, fl, BCmp(BSub(num, BShl(fl, sh)), BShl(<< 1 >>, sh - 1)))

\* |x| * 10000 = num / 2^sh
Round4Scaled(s, num, sh) ==
    IF sh <= 0 THEN FQuot(s, BShl(num, -sh), BFromInt(10000), 0)
    ELSE Round4Floor(s, num, sh, BShr(num, sh))

\* round(x, 4): the multiple of 1/10000 nearest to the value of x, ties to
\* even, then the double nearest to that decimal
Round4(x) == Round4Scaled(x.s, BMulSmall(x.m, 10000), -x.e)

RECURSIVE SumPrices(_)
SumPrices(c) == IF c = << >> THEN 0 ELSE c[1].price + SumPrices(Tail(c))

\* sum(x.price for x in c) / len(c): the prices are whole numbers, so the
\* float sum is their exact sum whatever the order of the additions
Mean(c) == FDiv(F(SumPrices(c)), F(Len(c)))

-----------------------------------------------------------------------------
(* detect_swings                                                            *)

SwingPoint(i, p, s) == [index |-> i, price |-> p, side |-> s]

\* Positions are 1-based here; SwingPoint.index is the 0-based bar index.
IsSwingHigh_Weak(hs, j) == hs[j] >= hs[j - 1] /\ hs[j] >= hs[j + 1]
IsSwingHigh(hs, j) == hs[j] > hs[j - 1] /\ hs[j] > hs[j + 1]
IsSwingLow(ls, j) == ls[j] < ls[j - 1] /\ ls[j] < ls[j + 1]

\* the loop "for i in range(1, n - 1)", from position j on
RECURSIVE SwingLoop(_, _, _)
SwingLoop(hs, ls, j) ==
    IF j >= Len(hs) THEN << >>
    ELSE (IF IsSwingHigh(hs, j) THEN << SwingPoint(j - 1, hs[j], "HIGH") >> ELSE << >>)
         \o (IF IsSwingLow(ls, j) THEN << SwingPoint(j - 1, ls[j], "LOW") >> ELSE << >>)
         \o SwingLoop(hs, ls, j + 1)

\* list.sort(key=index): stable insertion into ascending index order
RECURSIVE InsertByIndex(_, _)
InsertByIndex(s, x) ==
    IF s = << >> THEN << x >>
    ELSE IF s[Len(s)].index <= x.index THEN Append(s, x)
    ELSE Append(InsertByIndex(SubSeq(s, 1, Len(s) - 1), x), s[Len(s)])

RECURSIVE SortByIndex(_)
SortByIndex(s) ==
    IF s = << >> THEN << >>
    ELSE InsertByIndex(SortByIndex(SubSeq(s, 1, Len(s) - 1)), s[Len(s)])

Raise(e) == [err |-> e, val |-> << >>]
Return(v) == [err |-> "none", val |-> v]

detect_swings_LenLate(hs, ls) ==
    IF Len(hs) < 3 THEN Return(<< >>)
    ELSE IF Len(hs) # Len(ls) THEN Raise("InputError")
    ELSE Return(SortByIndex(SwingLoop(hs, ls, 2)))

detect_swings(hs, ls) ==
    IF Len(hs) # Len(ls) THEN Raise("InputError")
    ELSE IF Len(hs) < 3 THEN Return(<< >>)
    ELSE Return(SortByIndex(SwingLoop(hs, ls, 2)))

-----------------------------------------------------------------------------
(* cluster_equal_levels                                                     *)

LiquidityCluster(s, lvl, points) == [side |-> s, level |-> lvl, points |-> points]

\* pts = [s for s in swings if s.side == side]
RECURSIVE FilterSide(_, _)
FilterSide(sw, s) ==
    IF sw = << >> THEN << >>
    ELSE (IF sw[1].side = s THEN << sw[1] >> ELSE << >>) \o FilterSide(Tail(sw), s)

\* the parameter checks at the head of cluster_equal_levels
ClusterParamsOk(c) == c.tolerance > 0 /\ c.min_bars_between >= 0 /\ c.min_points >= 2

\* "for c in clusters" from position j on: the first cluster that satisfies
\* the spacing test and the tolerance test takes p; else a new cluster
RECURSIVE PlaceFrom(_, _, _, _, _)
PlaceFrom(cs, p, j, mbb, tol) ==
    IF j > Len(cs) THEN Append(cs, << p >>)
    ELSE LET c == cs[j]
             lastp == c[Len(c)]
         IN  IF (p.index - lastp.index) < mbb
                 THEN PlaceFrom(cs, p, j + 1, mbb, tol)
             ELSE IF FLe(FAbs(FSub(F(p.price), Mean(c))), F(tol))
                 THEN [cs EXCEPT ![j] = Append(c, p)]
             ELSE PlaceFrom(cs, p, j + 1, mbb, tol)

\* mutant: the scan runs over the clusters from the newest to the oldest
RECURSIVE PlaceFromNewest(_, _, _, _, _)
PlaceFromNewest(cs, p, j, mbb, tol) ==
    IF j < 1 THEN Append(cs, << p >>)
    ELSE LET c == cs[j]
             lastp == c[Len(c)]
         IN  IF (p.index - lastp.index) < mbb
                 THEN PlaceFromNewest(cs, p, j - 1, mbb, tol)
             ELSE IF FLe(FAbs(FSub(F(p.price), Mean(c))), F(tol))
                 THEN [cs EXCEPT ![j] = Append(c, p)]
             ELSE PlaceFromNewest(cs, p, j - 1, mbb, tol)

PlacePoint_NewestFirst(cs, p, mbb, tol) == PlaceFromNewest(cs, p, Len(cs), mbb, tol)

\* mutant: the tolerance test without abs()
RECURSIVE PlaceFromNoAbs(_, _, _, _, _)
PlaceFromNoAbs(cs, p, j, mbb, tol) ==
    IF j > Len(cs) THEN Append(cs, << p >>)
    ELSE LET c == cs[j]
             lastp == c[Len(c)]
         IN  IF (p.index - lastp.index) < mbb
                 THEN PlaceFromNoAbs(cs, p, j + 1, mbb, tol)
             ELSE IF FLe(FSub(F(p.price), Mean(c)), F(tol))
                 THEN [cs EXCEPT ![j] = Append(c, p)]
             ELSE PlaceFromNoAbs(cs, p, j + 1, mbb, tol)

PlacePoint_NoAbs(cs, p, mbb, tol) == PlaceFromNoAbs(cs, p, 1, mbb, tol)

\* mutant: the spacing test is skipped
RECURSIVE PlaceFromNoSpacing(_, _, _, _, _)
PlaceFromNoSpacing(cs, p, j, mbb, tol) ==
    IF j > Len(cs) THEN Append(cs, << p >>)
    ELSE LET c == cs[j]
         IN  IF FLe(FAbs(FSub(F(p.price), Mean(c))), F(tol))
                 THEN [cs EXCEPT ![j] = Append(c, p)]
             ELSE PlaceFromNoSpacing(cs, p, j + 1, mbb, tol)

PlacePoint_NoSpacing(cs, p, mbb, tol) == PlaceFromNoSpacing(cs, p, 1, mbb, tol)

\* one iteration of "for p in pts"
PlacePoint(cs, p, mbb, tol) == PlaceFrom(cs, p, 1, mbb, tol)

\* out.sort(key=level): stable insertion into ascending level order
RECURSIVE InsertByLevel(_, _)
InsertByLevel(s, x) ==
    IF s = << >> THEN << x >>
    ELSE IF FLe(s[Len(s)].level, x.level) THEN Append(s, x)
    ELSE Append(InsertByLevel(SubSeq(s, 1, Len(s) - 1), x), s[Len(s)])

RECURSIVE SortByLevel(_)
SortByLevel(s) ==
    IF s = << >> THEN << >>
    ELSE InsertByLevel(SortByLevel(SubSeq(s, 1, Len(s) - 1)), s[Len(s)])

\* "for c in clusters: if len(c) >= min_points: out.append(...)"
RECURSIVE KeepClusters(_, _, _)
KeepClusters(cs, s, mp) ==
    IF cs = << >> THEN << >>
    ELSE (IF Len(cs[1]) >= mp
              THEN << LiquidityCluster(s, Mean(cs[1]), cs[1]) >>
              ELSE << >>)
         \o KeepClusters(Tail(cs), s, mp)

BuildOut_Unsorted(cs, s, mp) == KeepClusters(cs, s, mp)

\* the tail of cluster_equal_levels: filter, level, sort
BuildOut(cs, s, mp) == SortByLevel(KeepClusters(cs, s, mp))

-----------------------------------------------------------------------------
(* nearest_liquidity_below / nearest_liquidity_above                        *)

NoCluster == LiquidityCluster("NONE", F(0), << >>)

RECURSIVE FilterBelow(_, _)
FilterBelow(cs, lvl) ==
    IF cs = << >> THEN << >>
    ELSE (IF FLt(cs[1].level, lvl) THEN << cs[1] >> ELSE << >>) \o FilterBelow(Tail(cs), lvl)

RECURSIVE FilterBelowOrEqual(_, _)
FilterBelowOrEqual(cs, lvl) ==
    IF cs = << >> THEN << >>
    ELSE (IF FLe(cs[1].level, lvl) THEN << cs[1] >> ELSE << >>)
         \o FilterBelowOrEqual(Tail(cs), lvl)

RECURSIVE FilterAbove(_, _)
FilterAbove(cs, lvl) ==
    IF cs = << >> THEN << >>
    ELSE (IF FLt(lvl, cs[1].level) THEN << cs[1] >> ELSE << >>) \o FilterAbove(Tail(cs), lvl)

\* max(seq, key=level): the first element of greatest level
RECURSIVE MaxByLevel(_)
MaxByLevel(cs) ==
    IF Len(cs) = 1 THEN cs[1]
    ELSE LET m == MaxByLevel(SubSeq(cs, 1, Len(cs) - 1))
         IN  IF FLt(m.level, cs[Len(cs)].level) THEN cs[Len(cs)] ELSE m

\* min(seq, key=level): the first element of least level
RECURSIVE MinByLevel(_)
MinByLevel(cs) ==
    IF Len(cs) = 1 THEN cs[1]
    ELSE LET m == MinByLevel(SubSeq(cs, 1, Len(cs) - 1))
         IN  IF FLt(cs[Len(cs)].level, m.level) THEN cs[Len(cs)] ELSE m

nearest_liquidity_below_Inclusive(lvl, cs) ==
    LET below == FilterBelowOrEqual(cs, lvl)
    IN  IF below = << >> THEN NoCluster ELSE MaxByLevel(below)

\* returns NoCluster for Python's None
nearest_liquidity_below(lvl, cs) ==
    LET below == FilterBelow(cs, lvl)
    IN  IF below = << >> THEN NoCluster ELSE MaxByLevel(below)

nearest_liquidity_above(lvl, cs) ==
    LET above == FilterAbove(cs, lvl)
    IN  IF above = << >> THEN NoCluster ELSE MinByLevel(above)

-----------------------------------------------------------------------------
(* Signal: construction with its validators                                 *)

\* Text is a sequence of ASCII code points (0..127); << >> is "".
M5  == << 77, 53 >>
M15 == << 77, 49, 53 >>
M30 == << 77, 51, 48 >>
H1  == << 72, 49 >>
H4  == << 72, 52 >>
D1  == << 68, 49 >>
SupportedTimeframes == {M5, M15, M30, H1, H4, D1}

\* str.isspace(): \t \n \v \f \r, the separators 0x1c..0x1f and the space
IsSpace(ch) == ch \in {9, 10, 11, 12, 13, 28, 29, 30, 31, 32}

RECURSIVE LStrip(_)
LStrip(v) == IF Len(v) > 0 /\ IsSpace(v[1]) THEN LStrip(Tail(v)) ELSE v

RECURSIVE RStrip(_)
RStrip(v) ==
    IF Len(v) > 0 /\ IsSpace(v[Len(v)]) THEN RStrip(SubSeq(v, 1, Len(v) - 1)) ELSE v

\* str.upper() of one ASCII character: a..z become A..Z
UpperChar(ch) == IF ch >= 97 /\ ch <= 122 THEN ch - 32 ELSE ch

\* str.upper()
RECURSIVE Upper(_)
Upper(v) == IF v = << >> THEN << >> ELSE << UpperChar(v[1]) >> \o Upper(Tail(v))

\* (v or "").strip().upper()
StripUpper(v) == Upper(RStrip(LStrip(v)))

\* field validators: TRUE iff the validator does not raise
normalize_symbol_ok(v) == Len(StripUpper(v)) > 0
normalize_timeframe_ok(v) == StripUpper(v) \in SupportedTimeframes
validate_entry_zone_ok(z) ==
    /\ ~ (FLe(z[1], F(0)) \/ FLe(z[2], F(0)))
    /\ ~ FLe(z[2], z[1])
validate_targets_ok(ts) == \A i \in 1..Len(ts) : ~ FLe(ts[i], F(0))
\* the members of the enums Direction, RiskLabel and LiquidityType
Direction == {"BUY", "SELL"}
RiskLabel == {"LOW", "MEDIUM", "HIGH"}
LiquidityType == {"EQH_TO_EQL", "EQL_TO_EQH"}

\* the enum-typed fields: TRUE iff each value is a member of its enum
enum_fields_ok(s) ==
    /\ s.direction \in Direction
    /\ s.liquidity_type \in LiquidityType
    /\ s.risk \in RiskLabel

\* Field(...) constraints: targets min_length=1, rr gt=0, confidence ge=0 le=100
field_constraints_ok(s) ==
    /\ Len(s.targets) >= 1
    /\ FLt(F(0), s.rr)
    /\ s.confidence >= 0 /\ s.confidence <= 100

validate_levels_vs_direction_NoStop(s) ==
    LET low == s.entry_zone[1]
        high == s.entry_zone[2]
        entry_mid == FDiv(FAdd(low, high), F(2))
    IN  /\ IF s.direction = "BUY"
           THEN /\ \A i \in 1..Len(s.targets) : FLt(entry_mid, s.targets[i])
                /\ s.liquidity_type = "EQL_TO_EQH"
           ELSE /\ \A i \in 1..Len(s.targets) : FLt(s.targets[i], entry_mid)
                /\ s.liquidity_type = "EQH_TO_EQL"
        /\ ~ FLe(s.rr, F(0))

\* model validator (mode="after"): TRUE iff it does not raise
validate_levels_vs_direction(s) ==
    LET low == s.entry_zone[1]
        high == s.entry_zone[2]
        entry_mid == FDiv(FAdd(low, high), F(2))
    IN  /\ IF s.direction = "BUY"
           THEN /\ FLt(s.stop_loss, low)
                /\ \A i \in 1..Len(s.targets) : FLt(entry_mid, s.targets[i])
                /\ s.liquidity_type = "EQL_TO_EQH"
           ELSE /\ FLt(high, s.stop_loss)
                /\ \A i \in 1..Len(s.targets) : FLt(s.targets[i], entry_mid)
                /\ s.liquidity_type = "EQH_TO_EQL"
        /\ ~ FLe(s.rr, F(0))

NoSignal ==
    [symbol |-> << >>, timeframe |-> << >>, direction |-> "NONE",
     entry_zone |-> << F(0), F(0) >>, stop_loss |-> F(0), targets |-> << >>,
     rr |-> F(0), liquidity_type |-> "NONE", confidence |-> 0, risk |-> "NONE",
     level |-> F(0)]

NoneOutcome == [kind |-> "none", sig |-> NoSignal]
RaiseOutcome == [kind |-> "raise", sig |-> NoSignal]

\* Signal(...): the validated record, or the raised validation error
Signal(raw) ==
    IF /\ normalize_symbol_ok(raw.symbol)
       /\ normalize_timeframe_ok(raw.timeframe)
       /\ validate_entry_zone_ok(raw.entry_zone)
       /\ validate_targets_ok(raw.targets)
       /\ field_constraints_ok(raw)
       /\ enum_fields_ok(raw)
       /\ validate_levels_vs_direction(raw)
    THEN [kind |-> "signal",
          sig |-> [raw EXCEPT !.symbol = StripUpper(raw.symbol),
                              !.timeframe = StripUpper(raw.timeframe)]]
    ELSE RaiseOutcome

-----------------------------------------------------------------------------
(* Signal builders                                                          *)

_mid(z) == FDiv(FAdd(z[1], z[2]), F(2))

\* the tail of _build_sell_from_eqh: the min_rr filter and the Signal
SellSignal(sym, tf, eqh, c, entry_zone, sl, tp1, rr, rejected) ==
    IF FLt(rr, c.min_rr) THEN rejected
    ELSE Signal([symbol |-> sym, timeframe |-> tf, direction |-> "SELL",
                 entry_zone |-> entry_zone, stop_loss |-> sl,
                 targets |-> << tp1 >>, rr |-> Round4(rr),
                 liquidity_type |-> "EQH_TO_EQL",
                 confidence |-> c.confidence_default, risk |-> c.risk_label,
                 level |-> eqh.level])

\* the filters on risk and reward, then rr = reward / risk
SellFiltered(sym, tf, eqh, c, entry_zone, sl, tp1, risk, reward, rejected) ==
    IF FLe(risk, F(0)) \/ FLe(reward, F(0)) THEN rejected
    ELSE IF FLt(reward, F(c.min_target)) THEN rejected
    ELSE SellSignal(sym, tf, eqh, c, entry_zone, sl, tp1, FDiv(reward, risk), rejected)

\* risk = sl - entry, reward = entry - tp1
SellLevels(sym, tf, eqh, c, entry_zone, sl, tp1, ent, rejected) ==
    SellFiltered(sym, tf, eqh, c, entry_zone, sl, tp1,
                 FSub(sl, ent), FSub(ent, tp1), rejected)

\* no target: None; else tp1 = target.level, entry = _mid(entry_zone)
SellTarget(sym, tf, eqh, c, entry_zone, sl, target, rejected) ==
    IF target = NoCluster THEN NoneOutcome
    ELSE SellLevels(sym, tf, eqh, c, entry_zone, sl, target.level,
                    _mid(entry_zone), rejected)

\* mutant: a setup that fails a filter raises
_build_sell_from_eqh_Raising(sym, tf, eqh, eqls, c) ==
    SellTarget(sym, tf, eqh, c,
               << FSub(eqh.level, F(c.entry_buffer)), FAdd(eqh.level, F(c.entry_buffer)) >>,
               FAdd(eqh.level, F(c.sl_buffer)),
               nearest_liquidity_below(eqh.level, eqls), RaiseOutcome)

\* a setup that fails a filter returns None
_build_sell_from_eqh(sym, tf, eqh, eqls, c) ==
    SellTarget(sym, tf, eqh, c,
               << FSub(eqh.level, F(c.entry_buffer)), FAdd(eqh.level, F(c.entry_buffer)) >>,
               FAdd(eqh.level, F(c.sl_buffer)),
               nearest_liquidity_below(eqh.level, eqls), NoneOutcome)

\* the tail of _build_buy_from_eql: the min_rr filter and the Signal
BuySignal(sym, tf, eql, c, entry_zone, sl, tp1, rr) ==
    IF FLt(rr, c.min_rr) THEN NoneOutcome
    ELSE Signal([symbol |-> sym, timeframe |-> tf, direction |-> "BUY",
                 entry_zone |-> entry_zone, stop_loss |-> sl,
                 targets |-> << tp1 >>, rr |-> Round4(rr),
                 liquidity_type |-> "EQL_TO_EQH",
                 confidence |-> c.confidence_default, risk |-> c.risk_label,
                 level |-> eql.level])

\* the filters on risk and reward, then rr = reward / risk
BuyFiltered(sym, tf, eql, c, entry_zone, sl, tp1, risk, reward) ==
    IF FLe(risk, F(0)) \/ FLe(reward, F(0)) THEN NoneOutcome
    ELSE IF FLt(reward, F(c.min_target)) THEN NoneOutcome
    ELSE BuySignal(sym, tf, eql, c, entry_zone, sl, tp1, FDiv(reward, risk))

\* risk = entry - sl, reward = tp1 - entry
BuyLevels(sym, tf, eql, c, entry_zone, sl, tp1, ent) ==
    BuyFiltered(sym, tf, eql, c, entry_zone, sl, tp1, FSub(ent, sl), FSub(tp1, ent))

\* no target: None; else tp1 = target.level, entry = _mid(entry_zone)
BuyTarget(sym, tf, eql, c, entry_zone, sl, target) ==
    IF target = NoCluster THEN NoneOutcome
    ELSE BuyLevels(sym, tf, eql, c, entry_zone, sl, target.level, _mid(entry_zone))

_build_buy_from_eql(sym, tf, eql, eqhs, c) ==
    BuyTarget(sym, tf, eql, c,
              << FSub(eql.level, F(c.entry_buffer)), FAdd(eql.level, F(c.entry_buffer)) >>,
              FSub(eql.level, F(c.sl_buffer)),
              nearest_liquidity_above(eql.level, eqhs))

-----------------------------------------------------------------------------
(* signals.sort(key=lambda x: (x.confidence, x.rr), reverse=True)           *)

\* (a.confidence, a.rr) >= (b.confidence, b.rr), tuples compared lexicographically
KeyGe(a, b) ==
    \/ a.confidence > b.confidence
    \/ (a.confidence = b.confidence /\ FLe(b.rr, a.rr))

KeyGt(a, b) == KeyGe(a, b) /\ ~ KeyGe(b, a)

\* stable: x goes behind every element whose key is >= its key
RECURSIVE InsertDesc(_, _)
InsertDesc(s, x) ==
    IF s = << >> THEN << x >>
    ELSE IF KeyGe(s[Len(s)], x) THEN Append(s, x)
    ELSE Append(InsertDesc(SubSeq(s, 1, Len(s) - 1), x), s[Len(s)])

\* mutant: x goes in front of the elements of equal key
RECURSIVE InsertDescFront(_, _)
InsertDescFront(s, x) ==
    IF s = << >> THEN << x >>
    ELSE IF KeyGt(s[Len(s)], x) THEN Append(s, x)
    ELSE Append(InsertDescFront(SubSeq(s, 1, Len(s) - 1), x), s[Len(s)])

RECURSIVE SortSignals_Unstable(_)
SortSignals_Unstable(s) ==
    IF s = << >> THEN << >>
    ELSE InsertDescFront(SortSignals_Unstable(SubSeq(s, 1, Len(s) - 1)), s[Len(s)])

RECURSIVE SortSignals(_)
SortSignals(s) ==
    IF s = << >> THEN << >>
    ELSE InsertDesc(SortSignals(SubSeq(s, 1, Len(s) - 1)), s[Len(s)])

-----------------------------------------------------------------------------
(* Inputs                                                                   *)

\* "XAUUSD", "xauusd", "eurusd\t", " m15 ", "X1", " \t"
XAUUSD     == << 88, 65, 85, 85, 83, 68 >>
xauusd     == << 120, 97, 117, 117, 115, 100 >>
eurusd_tab == << 101, 117, 114, 117, 115, 100, 9 >>
m15_padded == << 32, 109, 49, 53, 32 >>
X1         == << 88, 49 >>
Blank      == << 32, 9 >>

BaseCfg ==
    [tolerance |-> 1, min_bars_between |-> 2, min_points |-> 2,
     entry_buffer |-> 1, sl_buffer |-> 3, min_target |-> 0, min_rr |-> F(1),
     timeframe |-> M15, risk_label |-> "MEDIUM", confidence_default |-> 70]

NoLast == [direction |-> "NONE", cluster |-> NoCluster, outcome |-> NoneOutcome]

\* every sequence over S of length 0..n
SeqsUpTo(S, n) == UNION { [1..m -> S] : m \in 0..n }

\* the odd bar indices that have both neighbours
OddInterior(n) == { i \in 1..(n - 2) : i % 2 = 1 }

\* bar highs: a peak at every odd interior index, base elsewhere
ZigHighs(n, f, base) ==
    [j \in 1..n |-> IF (j - 1) \in OddInterior(n) THEN f[j - 1] ELSE base]
\* bar lows: a trough at every odd interior index, base elsewhere
ZagLows(n, g, base) ==
    [j \in 1..n |-> IF (j - 1) \in OddInterior(n) THEN g[j - 1] ELSE base]

\* peaks and troughs further apart than the tolerance: integer levels
PeakPrices == {10, 14}
TroughPrices == {2, 6}

\* peaks and troughs within the tolerance of each other: levels such as
\* 16/3 and 7/3, which no double holds exactly
NearPeakPrices == {5, 6}
NearTroughPrices == {2, 3}

TradeCfgs ==
    { BaseCfg,
      [BaseCfg EXCEPT !.entry_buffer = 0],
      [BaseCfg EXCEPT !.sl_buffer = 0],
      [BaseCfg EXCEPT !.sl_buffer = 1],
      [BaseCfg EXCEPT !.entry_buffer = 0, !.sl_buffer = 0],
      [BaseCfg EXCEPT !.min_target = 6],
      [BaseCfg EXCEPT !.min_rr = F(5)] }

NearCfgs ==
    { BaseCfg,
      [BaseCfg EXCEPT !.min_target = 3] }

ClusterCfgs ==
    { [BaseCfg EXCEPT !.tolerance = 0],
      [BaseCfg EXCEPT !.min_bars_between = -1],
      [BaseCfg EXCEPT !.min_points = 1],
      [BaseCfg EXCEPT !.tolerance = 0, !.min_points = 1],
      [BaseCfg EXCEPT !.min_bars_between = 5],
      [BaseCfg EXCEPT !.min_points = 3] }

OtherCfgs ==
    { [BaseCfg EXCEPT !.timeframe = X1],
      [BaseCfg EXCEPT !.confidence_default = 101],
      [BaseCfg EXCEPT !.risk_label = "LOW"],
      [BaseCfg EXCEPT !.risk_label = "BOGUS"] }

\* << symbol, timeframe, cfg >> of a scan_signals call
ScanArgs ==
    { << XAUUSD, M15, c >> : c \in TradeCfgs \cup ClusterCfgs \cup OtherCfgs }
    \cup { << xauusd, m15_padded, BaseCfg >>,
           << eurusd_tab, H4, BaseCfg >>,
           << XAUUSD, X1, BaseCfg >>,
           << Blank, M15, BaseCfg >> }

Idle ==
    /\ swings = << >> /\ side = "HIGH" /\ pts = << >> /\ clusters = << >> /\ pi = 1
    /\ eqh_clusters = << >> /\ eql_clusters = << >> /\ k = 1 /\ signals = << >>
    /\ last = NoLast /\ ret = << >> /\ err = "none"

\* scan_signals(symbol, highs, lows, cfg, timeframe)
Init ==
    /\ entry = "scan_signals" /\ pc = "detect_swings"
    /\ \/ /\ \E n \in 0..MaxBars, m \in 0..MaxBars :
               \E f \in [OddInterior(n) -> PeakPrices],
                  g \in [OddInterior(m) -> TroughPrices] :
                  /\ (n # m) => /\ f = [i \in OddInterior(n) |-> 10]
                                /\ g = [i \in OddInterior(m) |-> 2]
                  /\ highs = ZigHighs(n, f, 8)
                  /\ lows = ZagLows(m, g, 7)
          /\ \E a \in ScanArgs : symbol = a[1] /\ timeframe = a[2] /\ cfg = a[3]
       \/ /\ \E n \in 0..MaxBars :
               \E f \in [OddInterior(n) -> NearPeakPrices],
                  g \in [OddInterior(n) -> NearTroughPrices] :
                  /\ highs = ZigHighs(n, f, 4)
                  /\ lows = ZagLows(n, g, 4)
          /\ symbol = XAUUSD /\ timeframe = M15 /\ cfg \in NearCfgs
    /\ arg_level = F(0) /\ arg_clusters = << >>
    /\ Idle

\* detect_swings(highs, lows)
InitSwings ==
    /\ entry = "detect_swings" /\ pc = "detect_swings"
    /\ highs \in SeqsUpTo(1..MaxBarPrice, MaxLen)
    /\ lows \in SeqsUpTo(1..MaxBarPrice, MaxLen)
    /\ (Len(highs) # Len(lows)) =>
          (\A j \in 1..Len(highs) : highs[j] = 1) /\ (\A j \in 1..Len(lows) : lows[j] = 1)
    /\ symbol = XAUUSD /\ timeframe = M15 /\ cfg = BaseCfg
    /\ arg_level = F(0) /\ arg_clusters = << >>
    /\ Idle

\* what one bar index contributes to a swing sequence
PointChoices(i) ==
    { << >> } \cup { << SwingPoint(i, p, "HIGH") >> : p \in 1..MaxPrice }
              \cup { << SwingPoint(i, 1, "LOW") >> }

RECURSIVE SwingSeqs(_)
SwingSeqs(n) ==
    IF n = 0 THEN { << >> }
    ELSE { s \o t : s \in SwingSeqs(n - 1), t \in PointChoices(n) }

ClusterArgCfgs ==
    { [BaseCfg EXCEPT !.tolerance = t, !.min_bars_between = b, !.min_points = mp] :
        t \in {1, 2}, b \in {0, 2}, mp \in {2, 3} }
    \cup { [BaseCfg EXCEPT !.tolerance = 0],
           [BaseCfg EXCEPT !.min_bars_between = -1],
           [BaseCfg EXCEPT !.min_points = 1] }

\* prices spread widely against a tolerance of 6: one HIGH point per index
WidePrices == {1, 7, 10, 12}
WideSeqs(n) == { [i \in 1..n |-> SwingPoint(i, f[i], "HIGH")] : f \in [1..n -> WidePrices] }
WideCfg == [BaseCfg EXCEPT !.tolerance = 6, !.min_bars_between = 0]

\* cluster_equal_levels(swings, side, tolerance, min_bars_between, min_points)
InitCluster ==
    /\ entry = "cluster_equal_levels" /\ pc = "cluster_begin"
    /\ \/ /\ swings \in SwingSeqs(MaxIdx)
          /\ \E a \in { << "HIGH", c >> : c \in ClusterArgCfgs } \cup { << "LOW", BaseCfg >> } :
                side = a[1] /\ cfg = a[2]
       \/ /\ swings \in WideSeqs(MaxIdx)
          /\ side = "HIGH" /\ cfg = WideCfg
    /\ highs = << >> /\ lows = << >> /\ symbol = XAUUSD /\ timeframe = M15
    /\ pts = << >> /\ clusters = << >> /\ pi = 1
    /\ eqh_clusters = << >> /\ eql_clusters = << >> /\ k = 1 /\ signals = << >>
    /\ last = NoLast /\ ret = << >> /\ err = "none"
    /\ arg_level = F(0) /\ arg_clusters = << >>

\* nearest_liquidity_below / nearest_liquidity_above (level, clusters)
InitNearest ==
    /\ entry \in {"nearest_liquidity_below", "nearest_liquidity_above"}
    /\ pc = "nearest"
    /\ \E l \in 1..MaxLevel : arg_level = F(l)
    /\ \E ls \in SeqsUpTo(1..MaxLevel, MaxClusters) :
          arg_clusters = [j \in 1..Len(ls) |->
                            LiquidityCluster("LOW", F(ls[j]), << SwingPoint(j, ls[j], "LOW") >>)]
    /\ highs = << >> /\ lows = << >> /\ symbol = XAUUSD /\ timeframe = M15
    /\ cfg = BaseCfg
    /\ Idle

-----------------------------------------------------------------------------
(* Steps                                                                    *)

\* swings = detect_swings(highs, lows), first statement of detect_eqh_eql
DetectSwings ==
    /\ pc = "detect_swings"
    /\ LET r == detect_swings(highs, lows)
       IN  IF r.err # "none"
           THEN /\ err' = r.err /\ pc' = "raised"
                /\ UNCHANGED << swings, ret >>
           ELSE /\ swings' = r.val
                /\ err' = err
                /\ IF entry = "detect_swings"
                   THEN ret' = r.val /\ pc' = "done"
                   ELSE ret' = ret /\ pc' = "cluster_begin"
    /\ UNCHANGED << entry, symbol, timeframe, highs, lows, cfg, side, pts, clusters,
                    pi, eqh_clusters, eql_clusters, k, signals, last, arg_level,
                    arg_clusters >>

\* where scan_signals goes once both cluster lists are known / a loop ends
AfterSell(eqls) == IF eqls = << >> THEN "sort" ELSE "build_buy"
AfterClusters(eqhs, eqls) == IF eqhs = << >> THEN AfterSell(eqls) ELSE "build_sell"

\* cluster_equal_levels returns val to its caller
ClusterReturn(val) ==
    IF entry = "cluster_equal_levels"
    THEN /\ ret' = val /\ pc' = "done"
         /\ UNCHANGED << side, eqh_clusters, eql_clusters >>
    ELSE IF side = "HIGH"
    THEN /\ eqh_clusters' = val /\ side' = "LOW" /\ pc' = "cluster_begin"
         /\ UNCHANGED << ret, eql_clusters >>
    ELSE /\ eql_clusters' = val /\ pc' = AfterClusters(eqh_clusters, val)
         /\ UNCHANGED << ret, side, eqh_clusters >>

\* cluster_equal_levels up to the loop: parameter checks, side filter
ClusterBegin ==
    /\ pc = "cluster_begin"
    /\ IF ~ ClusterParamsOk(cfg)
       THEN /\ err' = "ConfigError" /\ pc' = "raised"
            /\ UNCHANGED << pts, clusters, pi, ret, side, eqh_clusters, eql_clusters >>
       ELSE /\ err' = err
            /\ pts' = FilterSide(swings, side)
            /\ clusters' = << >>
            /\ pi' = 1
            /\ IF FilterSide(swings, side) = << >>
               THEN ClusterReturn(<< >>)
               ELSE /\ pc' = "cluster_loop"
                    /\ UNCHANGED << ret, side, eqh_clusters, eql_clusters >>
    /\ UNCHANGED << entry, symbol, timeframe, highs, lows, cfg, swings, k, signals,
                    last, arg_level, arg_clusters >>

\* one iteration of "for p in pts"
ClusterPlace ==
    /\ pc = "cluster_loop"
    /\ pi <= Len(pts)
    /\ clusters' = PlacePoint(clusters, pts[pi], cfg.min_bars_between, cfg.tolerance)
    /\ pi' = pi + 1
    /\ UNCHANGED << entry, pc, symbol, timeframe, highs, lows, cfg, swings, side, pts,
                    eqh_clusters, eql_clusters, k, signals, last, arg_level,
                    arg_clusters, ret, err >>

\* the loop is over: build, filter, sort and return the clusters
ClusterFinish ==
    /\ pc = "cluster_loop"
    /\ pi > Len(pts)
    /\ ClusterReturn(BuildOut(clusters, side, cfg.min_points))
    /\ UNCHANGED << entry, symbol, timeframe, highs, lows, cfg, swings, pts, clusters,
                    pi, k, signals, last, arg_level, arg_clusters, err >>

\* one iteration of "for eqh in eqh_clusters"
BuildSell ==
    /\ pc = "build_sell"
    /\ last' = [direction |-> "SELL", cluster |-> eqh_clusters[k],
                outcome |-> _build_sell_from_eqh(symbol, timeframe, eqh_clusters[k],
                                                 eql_clusters, cfg)]
    /\ IF last'.outcome.kind = "raise"
       THEN /\ err' = "ValidationError" /\ pc' = "raised"
            /\ UNCHANGED << k, signals >>
       ELSE /\ err' = err
            /\ signals' = IF last'.outcome.kind = "signal"
                          THEN Append(signals, last'.outcome.sig) ELSE signals
            /\ IF k < Len(eqh_clusters)
               THEN k' = k + 1 /\ pc' = pc
               ELSE k' = 1 /\ pc' = AfterSell(eql_clusters)
    /\ UNCHANGED << entry, symbol, timeframe, highs, lows, cfg, swings, side, pts,
                    clusters, pi, eqh_clusters, eql_clusters, arg_level, arg_clusters,
                    ret >>

\* one iteration of "for eql in eql_clusters"
BuildBuy ==
    /\ pc = "build_buy"
    /\ last' = [direction |-> "BUY", cluster |-> eql_clusters[k],
                outcome |-> _build_buy_from_eql(symbol, timeframe, eql_clusters[k],
                                                eqh_clusters, cfg)]
    /\ IF last'.outcome.kind = "raise"
       THEN /\ err' = "ValidationError" /\ pc' = "raised"
            /\ UNCHANGED << k, signals >>
       ELSE /\ err' = err
            /\ signals' = IF last'.outcome.kind = "signal"
                          THEN Append(signals, last'.outcome.sig) ELSE signals
            /\ IF k < Len(eql_clusters)
               THEN k' = k + 1 /\ pc' = pc
               ELSE k' = 1 /\ pc' = "sort"
    /\ UNCHANGED << entry, symbol, timeframe, highs, lows, cfg, swings, side, pts,
                    clusters, pi, eqh_clusters, eql_clusters, arg_level, arg_clusters,
                    ret >>

\* signals.sort(...); return signals
SortAndReturn ==
    /\ pc = "sort"
    /\ ret' = SortSignals(signals)
    /\ pc' = "done"
    /\ UNCHANGED << entry, symbol, timeframe, highs, lows, cfg, swings, side, pts,
                    clusters, pi, eqh_clusters, eql_clusters, k, signals, last,
                    arg_level, arg_clusters, err >>

\* Optional result as a sequence: << >> for None
Opt(c) == IF c = NoCluster THEN << >> ELSE << c >>

NearestBelow ==
    /\ pc = "nearest" /\ entry = "nearest_liquidity_below"
    /\ ret' = Opt(nearest_liquidity_below(arg_level, arg_clusters))
    /\ pc' = "done"
    /\ UNCHANGED << entry, symbol, timeframe, highs, lows, cfg, swings, side, pts,
                    clusters, pi, eqh_clusters, eql_clusters, k, signals, last,
                    arg_level, arg_clusters, err >>

NearestAbove ==
    /\ pc = "nearest" /\ entry = "nearest_liquidity_above"
    /\ ret' = Opt(nearest_liquidity_above(arg_level, arg_clusters))
    /\ pc' = "done"
    /\ UNCHANGED << entry, symbol, timeframe, highs, lows, cfg, swings, side, pts,
                    clusters, pi, eqh_clusters, eql_clusters, k, signals, last,
                    arg_level, arg_clusters, err >>

Next ==
    \/ DetectSwings
    \/ ClusterBegin
    \/ ClusterPlace
    \/ ClusterFinish
    \/ BuildSell
    \/ BuildBuy
    \/ SortAndReturn

NextSwings == DetectSwings

NextCluster == ClusterBegin \/ ClusterPlace \/ ClusterFinish

NextNearest == NearestBelow \/ NearestAbove

Spec == Init /\ [][Next]_vars
SpecSwings == InitSwings /\ [][NextSwings]_vars
SpecCluster == InitCluster /\ [][NextCluster]_vars
SpecNearest == InitNearest /\ [][NextNearest]_vars

-----------------------------------------------------------------------------
(* Properties                                                               *)

ScanDone == entry = "scan_signals" /\ pc = "done"

\* C1: every Signal of a list returned by scan_signals has low < high and
\* rr > 0; a BUY has its stop below the zone, every target above the zone's
\* middle and type EQL_TO_EQH; a SELL has its stop above the zone, every
\* target below the middle and type EQH_TO_EQL.
C1_ReturnedSignalsValid ==
    ScanDone =>
        \A i \in 1..Len(ret) :
            LET s == ret[i]
                low == s.entry_zone[1]
                high == s.entry_zone[2]
                mid == FDiv(FAdd(low, high), F(2))
            IN  /\ FLt(low, high)
                /\ FLt(F(0), s.rr)
                /\ s.direction \in {"BUY", "SELL"}
                /\ (s.direction = "BUY") =>
                       /\ FLt(s.stop_loss, low)
                       /\ \A t \in 1..Len(s.targets) : FLt(mid, s.targets[t])
                       /\ s.liquidity_type = "EQL_TO_EQH"
                /\ (s.direction = "SELL") =>
                       /\ FLt(high, s.stop_loss)
                       /\ \A t \in 1..Len(s.targets) : FLt(s.targets[t], mid)
                       /\ s.liquidity_type = "EQH_TO_EQL"

\* a scan returned a BUY and a SELL signal
C1_Witness ==
    /\ ScanDone
    /\ \E i, j \in 1..Len(ret) : ret[i].direction = "BUY" /\ ret[j].direction = "SELL"

\* the levels of the opposite clusters a candidate may target
C2_TargetLevels(dir, h, opp) ==
    { opp[j].level : j \in { x \in 1..Len(opp) :
                               IF dir = "SELL" THEN FLt(opp[x].level, h.level)
                                               ELSE FLt(h.level, opp[x].level) } }

\* the greatest level of S for SELL, the least for BUY
C2_Nearest(dir, S) ==
    CHOOSE l \in S : \A o \in S : IF dir = "SELL" THEN FLe(o, l) ELSE FLe(l, o)

\* the nearest of them: greatest below for SELL, least above for BUY
C2_TargetLevel(dir, h, opp) == C2_Nearest(dir, C2_TargetLevels(dir, h, opp))

C2_StopLoss(dir, h) ==
    IF dir = "SELL" THEN FAdd(h.level, F(cfg.sl_buffer)) ELSE FSub(h.level, F(cfg.sl_buffer))

C2_Zone(h) == << FSub(h.level, F(cfg.entry_buffer)), FAdd(h.level, F(cfg.entry_buffer)) >>

\* the middle of zone z
C2_Mid(z) == FDiv(FAdd(z[1], z[2]), F(2))

C2_Entry(h) == C2_Mid(C2_Zone(h))

\* the distance from a to b in the direction of the trade
C2_Gain(dir, a, b) == IF dir = "SELL" THEN FSub(a, b) ELSE FSub(b, a)

C2_Risk(dir, h) == C2_Gain(dir, C2_StopLoss(dir, h), C2_Entry(h))

C2_Reward(dir, h, opp) == C2_Gain(dir, C2_Entry(h), C2_TargetLevel(dir, h, opp))

\* a candidate of this risk and reward fails an economic test
C2_Uneconomic(risk, reward) ==
    \/ FLe(risk, F(0))
    \/ FLe(reward, F(0))
    \/ FLt(reward, F(cfg.min_target))
    \/ FLt(FDiv(reward, risk), cfg.min_rr)

\* the candidate has no target or fails an economic test
C2_Discarded(dir, h, opp) ==
    \/ C2_TargetLevels(dir, h, opp) = {}
    \/ C2_Uneconomic(C2_Risk(dir, h), C2_Reward(dir, h, opp))

C2_Opposite(dir) == IF dir = "SELL" THEN eql_clusters ELSE eqh_clusters

C2_InDomain ==
    /\ cfg.entry_buffer >= 0 /\ cfg.sl_buffer >= 0 /\ cfg.min_target >= 0
    /\ FLt(F(0), cfg.min_rr)

\* C2: for a config in the stated domain a builder returns nothing when the
\* candidate fails an economic test and otherwise emits, without raising,
\* the one Signal with the stated zone, stop, target, rr, type, confidence
\* and level.
C2_BuilderNeverRaises ==
    (last.direction # "NONE" /\ C2_InDomain) =>
        LET dir == last.direction
            h == last.cluster
            opp == C2_Opposite(dir)
            out == last.outcome
        IN  IF C2_Discarded(dir, h, opp)
            THEN out.kind = "none"
            ELSE /\ out.kind = "signal"
                 /\ out.sig.direction = dir
                 /\ out.sig.entry_zone = C2_Zone(h)
                 /\ out.sig.stop_loss = C2_StopLoss(dir, h)
                 /\ out.sig.targets = << C2_TargetLevel(dir, h, opp) >>
                 /\ out.sig.rr = Round4(FDiv(C2_Reward(dir, h, opp), C2_Risk(dir, h)))
                 /\ out.sig.liquidity_type =
                        (IF dir = "SELL" THEN "EQH_TO_EQL" ELSE "EQL_TO_EQH")
                 /\ out.sig.confidence = cfg.confidence_default
                 /\ out.sig.level = h.level

C3_KeyEq(a, b) == a.confidence = b.confidence /\ FEq(a.rr, b.rr)
C3_KeyLe(a, b) ==
    a.confidence < b.confidence \/ (a.confidence = b.confidence /\ FLe(a.rr, b.rr))
C3_Count(seq, x) == Cardinality({ i \in 1..Len(seq) : seq[i] = x })

\* C3: the returned list is the collected list reordered, non-increasing in
\* (confidence, rr), with signals of equal key in their collection order.
C3_SortedStable ==
    ScanDone =>
        /\ Len(ret) = Len(signals)
        /\ \A i \in 1..Len(ret) : C3_Count(ret, ret[i]) = C3_Count(signals, ret[i])
        /\ \A i, j \in 1..Len(ret) :
              (i < j) =>
                 /\ C3_KeyLe(ret[j], ret[i])
                 /\ C3_KeyEq(ret[i], ret[j]) =>
                       \E a, b \in 1..Len(signals) :
                           a < b /\ signals[a] = ret[i] /\ signals[b] = ret[j]

\* a scan whose sort moved a signal and kept a tie (SELL before BUY) in order
C3_Witness ==
    /\ ScanDone
    /\ ret # signals
    /\ \E i, j \in 1..Len(ret) :
          /\ i < j /\ C3_KeyEq(ret[i], ret[j])
          /\ ret[i].direction = "SELL" /\ ret[j].direction = "BUY"
    /\ \E i, j \in 1..Len(ret) : i < j /\ ~ C3_KeyLe(ret[i], ret[j])

ClusterDone == entry = "cluster_equal_levels" /\ pc = "done"

RECURSIVE C4_Sum(_, _)
C4_Sum(points, n) == IF n = 0 THEN 0 ELSE points[n].price + C4_Sum(points, n - 1)

\* C4: every returned cluster has at least min_points members, all of the
\* requested side, and a level equal to the mean of its members' prices (their
\* sum divided by their number, as a float); the returned sequence is
\* ascending in level.
C4_ClustersWellFormed ==
    ClusterDone =>
        /\ \A i \in 1..Len(ret) :
              LET c == ret[i]
              IN  /\ Len(c.points) >= cfg.min_points
                  /\ c.side = side
                  /\ \A j \in 1..Len(c.points) : c.points[j].side = side
                  /\ c.level = FDiv(F(C4_Sum(c.points, Len(c.points))), F(Len(c.points)))
        /\ \A i, j \in 1..Len(ret) : (i < j) => FLe(ret[i].level, ret[j].level)

\* two clusters are returned, the one of lower level created last
C4_Witness ==
    /\ ClusterDone
    /\ Len(ret) >= 2
    /\ FLt(ret[1].level, ret[2].level)
    /\ ret[1].points[1].index > ret[2].points[1].index

\* cluster c accepts point p: spacing from its last member and distance
\* from the mean of its current members
C5_Accepts(c, p) ==
    /\ (p.index - c[Len(c)].index) >= cfg.min_bars_between
    /\ LET num == C4_Sum(c, Len(c))
       IN  Abs(p.price * Len(c) - num) <= cfg.tolerance * Len(c)

C5_Accepting(p) == { j \in 1..Len(clusters) : C5_Accepts(clusters[j], p) }

\* C5: each point joins the earliest-created cluster that accepts it, and
\* starts a new one-member cluster iff none accepts it.
C5_FirstFit ==
    [][ (pc = "cluster_loop" /\ pi' = pi + 1) =>
          LET p == pts[pi]
              A == C5_Accepting(p)
          IN  IF A = {}
              THEN clusters' = Append(clusters, << p >>)
              ELSE \E j \in A :
                      /\ \A i \in A : j <= i
                      /\ clusters' = [clusters EXCEPT ![j] = Append(clusters[j], p)]
      ]_vars

\* distance of price x from the mean of the points c, times Len(c)
C5_Dist(c, n, x) == Abs(x * n - C4_Sum(c, n))

\* the point placed last joined cluster j although the mean of a cluster
\* created later, which also accepted it, was closer
C5_Witness ==
    /\ pc = "cluster_loop" /\ pi > 1
    /\ \E j, l \in 1..Len(clusters) :
          LET p == pts[pi - 1]
              cj == clusters[j]
              cl == clusters[l]
              nj == Len(cj) - 1
          IN  /\ j < l
              /\ nj >= 1
              /\ cj[Len(cj)] = p
              /\ (p.index - cl[Len(cl)].index) >= cfg.min_bars_between
              /\ C5_Dist(cl, Len(cl), p.price) <= cfg.tolerance * Len(cl)
              /\ C5_Dist(cl, Len(cl), p.price) * nj < C5_Dist(cj, nj, p.price) * Len(cl)

C6_Invalid ==
    \/ cfg.tolerance <= 0
    \/ cfg.min_bars_between < 0
    \/ cfg.min_points < 2
    \/ StripUpper(cfg.timeframe) \notin SupportedTimeframes
    \/ StripUpper(timeframe) \notin SupportedTimeframes

\* C6: with an invalid config (clustering parameters or timeframe label)
\* scan_signals never returns a list.
C6_InvalidConfigFails ==
    (entry = "scan_signals" /\ C6_Invalid) => pc # "done"

C7_Passing(dir, own) ==
    { j \in 1..Len(own) : ~ C2_Discarded(dir, own[j], C2_Opposite(dir)) }

\* C7: a candidate that fails an economic test yields no signal and no error,
\* and a returned list holds the signal of every candidate that passes.
C7_FilteredNeverRaises ==
    /\ (last.direction # "NONE"
          /\ C2_Discarded(last.direction, last.cluster, C2_Opposite(last.direction))) =>
             (last.outcome.kind = "none" /\ err = "none" /\ pc # "raised")
    /\ ScanDone =>
          /\ \A j \in C7_Passing("SELL", eqh_clusters) :
                \E i \in 1..Len(ret) :
                    ret[i].direction = "SELL" /\ ret[i].level = eqh_clusters[j].level
          /\ \A j \in C7_Passing("BUY", eql_clusters) :
                \E i \in 1..Len(ret) :
                    ret[i].direction = "BUY" /\ ret[i].level = eql_clusters[j].level
          /\ Len(ret) = Cardinality(C7_Passing("SELL", eqh_clusters))
                        + Cardinality(C7_Passing("BUY", eql_clusters))

\* the first EQH candidate was filtered with a target at hand, and the scan
\* returned the signal of the second
C7_Witness ==
    /\ ScanDone
    /\ Len(eqh_clusters) = 2
    /\ C2_TargetLevels("SELL", eqh_clusters[1], eql_clusters) # {}
    /\ 1 \notin C7_Passing("SELL", eqh_clusters)
    /\ 2 \in C7_Passing("SELL", eqh_clusters)
    /\ \E i \in 1..Len(ret) : ret[i].direction = "SELL"

SwingsDone == entry = "detect_swings" /\ pc = "done"

\* the swing points the fractal rule asks for (bar index i is position i + 1)
C8_Expected ==
    { SwingPoint(i, highs[i + 1], "HIGH") :
        i \in { x \in 1..(Len(highs) - 2) :
                  highs[x + 1] > highs[x] /\ highs[x + 1] > highs[x + 2] } }
    \cup
    { SwingPoint(i, lows[i + 1], "LOW") :
        i \in { x \in 1..(Len(lows) - 2) :
                  lows[x + 1] < lows[x] /\ lows[x + 1] < lows[x + 2] } }

\* C8: detect_swings returns exactly the strict 3-bar highs and lows of the
\* interior indices, each once, in ascending index order; nothing for n < 3.
C8_SwingsExact ==
    SwingsDone =>
        /\ { ret[i] : i \in 1..Len(ret) } = C8_Expected
        /\ Len(ret) = Cardinality(C8_Expected)
        /\ \A i, j \in 1..Len(ret) : (i < j) => ret[i].index <= ret[j].index
        /\ \A i \in 1..Len(ret) : ret[i].index >= 1 /\ ret[i].index <= Len(highs) - 2
        /\ (Len(highs) < 3) => ret = << >>

\* one index yields a HIGH and a LOW, and a plateau of highs yields nothing
C8_Witness ==
    /\ SwingsDone
    /\ \E i, j \in 1..Len(ret) :
          ret[i].index = ret[j].index /\ ret[i].side = "HIGH" /\ ret[j].side = "LOW"
    /\ \E x \in 2..(Len(highs) - 1) :
          /\ highs[x] = highs[x + 1] /\ highs[x] > highs[x - 1]
          /\ \A i \in 1..Len(ret) : ~ (ret[i].side = "HIGH" /\ ret[i].index = x - 1)

C9_Strictly(j) ==
    IF entry = "nearest_liquidity_below"
    THEN FLt(arg_clusters[j].level, arg_level)
    ELSE FLt(arg_level, arg_clusters[j].level)

C9_Candidates == { j \in 1..Len(arg_clusters) : C9_Strictly(j) }

\* C9: nearest_liquidity_below returns a cluster strictly below the level
\* that no other such cluster exceeds, and none iff there is no cluster
\* strictly below; nearest_liquidity_above is the mirror.
C9_NearestCorrect ==
    (pc = "done" /\ entry \in {"nearest_liquidity_below", "nearest_liquidity_above"}) =>
        /\ (ret = << >>) <=> (C9_Candidates = {})
        /\ (ret # << >>) =>
              /\ Len(ret) = 1
              /\ \E j \in C9_Candidates : arg_clusters[j] = ret[1]
              /\ \A i \in C9_Candidates :
                    IF entry = "nearest_liquidity_below"
                    THEN FLe(arg_clusters[i].level, ret[1].level)
                    ELSE FLe(ret[1].level, arg_clusters[i].level)

\* a cluster sits exactly at the level and a lower one is returned
C9_Witness ==
    /\ pc = "done" /\ entry = "nearest_liquidity_below"
    /\ \E j \in 1..Len(arg_clusters) : FEq(arg_clusters[j].level, arg_level)
    /\ ret # << >>

\* C10: with highs and lows of different lengths scan_signals raises the
\* input error and returns nothing, whatever the lengths and the config.
C10_LengthMismatchFails ==
    (entry = "scan_signals" /\ Len(highs) # Len(lows)) =>
        /\ pc \in {"detect_swings", "raised"}
        /\ (pc = "raised") => err = "InputError"
        /\ ret = << >> /\ signals = << >> /\ swings = << >>

\* the error was raised for short, unequal inputs under an invalid config
C10_Witness ==
    /\ entry = "scan_signals" /\ pc = "raised" /\ err = "InputError"
    /\ Len(highs) # Len(lows)
    /\ Len(highs) < 3
    /\ ~ ClusterParamsOk(cfg)

\* C11 as claimed: every member of a returned cluster lies within tolerance
\* of the cluster's level.
C11_MembersWithinToleranceOfLevel ==
    ClusterDone =>
        \A i \in 1..Len(ret) :
            \A j \in 1..Len(ret[i].points) :
                FLe(FAbs(FSub(F(ret[i].points[j].price), ret[i].level)), F(cfg.tolerance))

\* C11 (amended): every member of a returned cluster but its first lay,
\* when it was appended, within tolerance of the mean of the members the
\* cluster had then, i.e. of the members in front of it.
C11_MembersWithinToleranceOnJoin ==
    ClusterDone =>
        \A i \in 1..Len(ret) :
            \A j \in 2..Len(ret[i].points) :
                C5_Dist(ret[i].points, j - 1, ret[i].points[j].price)
                    <= cfg.tolerance * (j - 1)

\* a returned cluster whose level has drifted more than tolerance away from
\* one of its members
C11_Witness ==
    /\ ClusterDone
    /\ \E i \in 1..Len(ret) :
          \E j \in 1..Len(ret[i].points) :
              FLt(F(cfg.tolerance), FAbs(FSub(F(ret[i].points[j].price), ret[i].level)))

\* cluster_equal_levels got past its parameter checks
C12_Clustering ==
    entry = "cluster_equal_levels" /\ pc \in {"cluster_loop", "done"} /\ err = "none"

\* the places << cluster, position >> of the in-progress clusters that hold x
C12_Places(x) ==
    { jm \in UNION { { << j, n >> : n \in 1..Len(clusters[j]) } : j \in 1..Len(clusters) } :
        clusters[jm[1]][jm[2]] = x }

\* the input points of the requested side
C12_SidePoints == { swings[i] : i \in { x \in 1..Len(swings) : swings[x].side = side } }

RECURSIVE C12_Total(_)
C12_Total(j) == IF j = 0 THEN 0 ELSE Len(clusters[j]) + C12_Total(j - 1)

\* C12: every point of the requested side processed so far sits in exactly
\* one in-progress cluster and the clusters hold nothing else; once the call
\* has returned, all side points are placed, the returned clusters are the
\* in-progress clusters of at least min_points members (so a point is lost
\* only with its whole cluster), and the members of each returned cluster
\* have strictly increasing indices, consecutive ones at least
\* min_bars_between apart.
C12_PartitionAndSpacing ==
    C12_Clustering =>
        /\ \A q \in 1..(pi - 1) : Cardinality(C12_Places(pts[q])) = 1
        /\ C12_Total(Len(clusters)) = pi - 1
        /\ \A j \in 1..Len(clusters) : clusters[j] # << >>
        /\ { pts[q] : q \in 1..Len(pts) } = C12_SidePoints
        /\ Len(pts) = Cardinality(C12_SidePoints)
        /\ (pc = "done") =>
              /\ pi = Len(pts) + 1
              /\ \A x \in C12_SidePoints :
                    LET j == (CHOOSE jm \in C12_Places(x) : TRUE)[1]
                        holders == { i \in 1..Len(ret) : ret[i].points = clusters[j] }
                    IN  IF Len(clusters[j]) >= cfg.min_points
                        THEN Cardinality(holders) = 1
                        ELSE \A i \in 1..Len(ret) :
                                \A n \in 1..Len(ret[i].points) : ret[i].points[n] # x
              /\ \A i \in 1..Len(ret) :
                    /\ \E j \in 1..Len(clusters) : ret[i].points = clusters[j]
                    /\ \A n \in 1..(Len(ret[i].points) - 1) :
                          /\ ret[i].points[n].index < ret[i].points[n + 1].index
                          /\ ret[i].points[n + 1].index - ret[i].points[n].index
                                >= cfg.min_bars_between

\* a call returned a cluster while dropping another, and the spacing rule
\* had kept a point out of a cluster whose mean was within tolerance
C12_Witness ==
    /\ ClusterDone
    /\ cfg.min_bars_between = 2
    /\ Len(ret) >= 1
    /\ \E j \in 1..Len(clusters) : Len(clusters[j]) < cfg.min_points
    /\ \E j, l \in 1..Len(clusters) :
          /\ j < l
          /\ \E n \in 1..Len(clusters[j]) :
                /\ clusters[l][1].index - clusters[j][n].index < cfg.min_bars_between
                /\ clusters[l][1].index > clusters[j][n].index
                /\ C5_Dist(clusters[j], n, clusters[l][1].price) <= cfg.tolerance * n

====
